---- MODULE Spec2Model ----
(***************************************************************************)
(* Playback clock, render-time mapping, feature opacity and scene          *)
(* composition of earthquakes.js.                                          *)
(*                                                                         *)
(* Every handler of the script (button click, slider events, the animation *)
(* frame callback, the JSONP callback, the texture loader callbacks, the   *)
(* window load/resize and camera control events) is one action.  A handler runs to   *)
(* completion on the single JavaScript thread, so an action contains the   *)
(* whole synchronous notification of every Rx subscriber it reaches.       *)
(*                                                                         *)
(* Numbers.  Times are integers in milliseconds.  A render time is a       *)
(* rational, kept exact as a mixed number [ms, num, den] = ms + num/den    *)
(* with 0 <= num < den; the rounding of IEEE doubles is not modelled.      *)
(* An opacity is kept exact as a multiple of 1/FadeTime.                   *)
(***************************************************************************)
EXTENDS Integers, Sequences, FiniteSets, TLC

\* ------------------------------------------------------------------------
\* Program constants
\* ------------------------------------------------------------------------
playTime == 10000

\* 6 * 60 * 60 * 1000, the fade window of featureOpacity.
FadeTime == 6 * 60 * 60 * 1000

\* ------------------------------------------------------------------------
\* Bounds of the model
\* ------------------------------------------------------------------------
\* Wall-clock time (Date.now()) that passes while the page is idle.
MaxNow == 5000
\* Number of requestAnimationFrame calls in one behaviour.
MaxRequests == 4
\* The slider takes the values k / SliderScale.
SliderScale == 4
\* Slider values reach OutOfRange steps below 0 and above 1 when the
\* handler is driven with values the range input would not produce.
OutOfRange == 1

\* Amounts of wall-clock time that pass between two handlers.
ClockSteps == {2500, 4000}

Hour == 60 * 60 * 1000

\* Event batches delivered to eqfeed_callback: feature lists, newest first.
\* Only properties.time of a feature is read by the modelled code.
Feature(t) == [time |-> t]
BatchWeek == <<Feature(7 * Hour + 7), Feature(Hour), Feature(3)>>
BatchOne == <<Feature(5000)>>
BatchEmpty == <<>>
Batches == {BatchEmpty, BatchOne, BatchWeek}

\* ------------------------------------------------------------------------
\* Exact arithmetic
\* ------------------------------------------------------------------------
Min(a, b) == IF a <= b THEN a ELSE b
Max(a, b) == IF a >= b THEN a ELSE b

RECURSIVE GCD(_, _)
GCD(a, b) == IF b = 0 THEN a ELSE GCD(b, a % b)

\* ms + num/den in lowest terms, 0 <= num < den.
Rat(ms, num, den) ==
  IF num = 0 THEN [ms |-> ms, num |-> 0, den |-> 1]
  ELSE LET g == GCD(num, den) IN [ms |-> ms, num |-> num \div g, den |-> den \div g]

RatInt(n) == Rat(n, 0, 1)

\* a * b / c for c > 0, without forming the product a * b:
\* with b = q*c + r,  a*b/c = a*q + (a*r)/c.
MulDiv(a, b, c) ==
  LET q == b \div c
      r == b % c
  IN Rat(a * q + ((a * r) \div c), (a * r) % c, c)

\* n + x, x - n and n - x for an integer n and a rational x.
RatAddInt(n, x) == [x EXCEPT !.ms = x.ms + n]
RatSubInt(x, n) == [x EXCEPT !.ms = x.ms - n]
IntSubRat(n, x) ==
  IF x.num = 0 THEN RatInt(n - x.ms) ELSE Rat(n - x.ms - 1, x.den - x.num, x.den)

RatLess(x, y) ==
  \/ x.ms < y.ms
  \/ x.ms = y.ms /\ x.num * y.den < y.num * x.den
RatMax(x, y) == IF RatLess(x, y) THEN y ELSE x

\* ------------------------------------------------------------------------
\* State
\* ------------------------------------------------------------------------
VARIABLES
  playState,      \* value of playState$: [playing, currentTime, totalTime]
  lastFrameTime,  \* Date.now() when the pending frame was requested
  requestID,      \* id of the requested frame, or null
  now,            \* Date.now()
  pending,        \* the browser's animation frame callbacks: [id, at]
  nextID,         \* next id requestAnimationFrame returns
  buttonValue,    \* button.value
  sliderValue,    \* slider.value, [num, den] = num / den
  replay,         \* buffer of features$ (ReplaySubject(1)): <<>> or <<batch>>
  dateText,       \* render time shown in #date: <<>> or <<time>>
  dateAlive,      \* the renderTime$ subscription of #date has not errored
  sunTime,        \* render time the sun was placed for: <<>> or <<time>>
  group,          \* feature group of featureGroup$: <<>> or
                  \* <<[features, lastTime, opacity]>>
  groupTime,      \* render time last applied to the group: <<>> or <<time>>
  sceneAlive,     \* the scene$ subscription has not errored
  uncaught,       \* exceptions thrown out of a handler
  inner,          \* scans of featureGroup$ subscribed to renderTime$:
                  \* sequence of [g, seen], g the group of the scan, seen
                  \* the batch its combineLatest saw last
  tex,            \* notifications each texture stream has sent
  earth,          \* number of meshes earth$ has emitted
  rendererSize,   \* size given to the renderer: <<>> or <<dimensions>>
  cameraAspect,   \* camera.aspect, [num, den] in lowest terms
  sceneChildren,  \* scene.children; <<>> until scene$ has emitted
  sceneLog,       \* emissions of scene$ during the last handler, in order
  draws,          \* renderer.render calls during the last handler, in order
  lastCmd         \* last playback command run: "none", "play", "pause", "seek",
                  \* "tick", or "resume" for a play() that directly followed a
                  \* pause()

clockVars == <<playState, lastFrameTime, requestID, pending, nextID, buttonValue,
               sliderValue, lastCmd>>
renderVars == <<replay, dateText, dateAlive, sunTime, group, groupTime, sceneAlive,
               uncaught, inner>>
sceneVars == <<tex, earth, rendererSize, cameraAspect, sceneChildren, sceneLog, draws>>
vars == <<playState, lastFrameTime, requestID, now, pending, nextID, buttonValue,
          sliderValue, replay, dateText, dateAlive, sunTime, group, groupTime,
          sceneAlive, uncaught, lastCmd, inner, tex, earth, rendererSize,
          cameraAspect, sceneChildren, sceneLog, draws>>

\* JavaScript null: falsy in a condition, 0 in a subtraction.
null == 0

startState == [playing |-> FALSE, currentTime |-> playTime, totalTime |-> playTime]

\* ------------------------------------------------------------------------
\* Playback clock
\* ------------------------------------------------------------------------

\* Mutant: the previous callback is not cancelled.
CancelPreviousNever(rid, pend) == pend

\* Mutant: the test of requestID is inverted.
CancelPreviousInverted(rid, pend) ==
  IF rid = null THEN {c \in pend : c.id # rid} ELSE pend

\* cancelAnimationFrame(requestID) when requestID is set.
CancelPrevious(rid, pend) ==
  IF rid # null THEN {c \in pend : c.id # rid} ELSE pend

\* The first subscriber of playState$: cancel the previous frame callback
\* and, when playing, request a new one.  rid and pend are requestID and
\* the browser's callback list when the subscriber runs, t is Date.now().
FrameScheduler(ps, rid, pend, t) ==
  LET kept == CancelPrevious(rid, pend) IN
  IF ps.playing
  THEN /\ nextID <= MaxRequests
       /\ lastFrameTime' = t
       /\ requestID' = nextID
       /\ pending' = kept \cup {[id |-> nextID, at |-> t]}
       /\ nextID' = nextID + 1
  ELSE /\ lastFrameTime' = lastFrameTime
       /\ requestID' = null
       /\ pending' = kept
       /\ nextID' = nextID

\* ------------------------------------------------------------------------
\* Render time and feature opacity
\* ------------------------------------------------------------------------

\* features[features.length - 1] is undefined for an empty batch and
\* reading .properties of it throws a TypeError.
SelectorThrows(features) == Len(features) = 0

\* Mutant: the batch is read oldest first.
renderTimeSelectorSwapped(features, ps) ==
  LET first == features[1].time
      total == features[Len(features)].time - features[1].time
  IN RatAddInt(first, MulDiv(ps.currentTime, total, playTime))

\* The selector of renderTime$.
renderTimeSelector(features, ps) ==
  LET first == features[Len(features)].time
      last == features[1].time
      total == features[1].time - features[Len(features)].time
  IN RatAddInt(first, MulDiv(ps.currentTime, total, playTime))

\* Opacities are multiples of 1/FadeTime: the opacity o is RatInt-scaled
\* to o * FadeTime.
OpacityOne == RatInt(FadeTime)
OpacityZero == RatInt(0)
\* 0.2
OpacityFloor == RatInt(FadeTime \div 5)

\* Mutant: the fade has no floor.
featureOpacityNoFloor(renderTime, featureTime) ==
  IF RatLess(renderTime, RatInt(featureTime))
  THEN OpacityZero
  ELSE RatMax(OpacityZero, IntSubRat(FadeTime, RatSubInt(renderTime, featureTime)))

featureOpacity(renderTime, featureTime) ==
  IF RatLess(renderTime, RatInt(featureTime))
  THEN OpacityZero
  ELSE RatMax(OpacityFloor, IntSubRat(FadeTime, RatSubInt(renderTime, featureTime)))

\* The opacity the scan of featureGroup$ gives one child.
ChildOpacity(renderTime, lastTime, featureTime) ==
  IF ~RatLess(renderTime, RatInt(lastTime))
  THEN OpacityOne
  ELSE featureOpacity(renderTime, featureTime)

\* createFeature gives every cone opacity 1.
NewGroup(features) ==
  [features |-> features,
   lastTime |-> features[1].time,
   opacity |-> [i \in 1..Len(features) |-> OpacityOne]]

\* One step of the scan of featureGroup$.
UpdateOpacity(g, renderTime) ==
  [g EXCEPT !.opacity =
     [i \in 1..Len(g.opacity) |-> ChildOpacity(renderTime, g.lastTime, g.features[i].time)]]

\* ------------------------------------------------------------------------
\* Scene composition
\* ------------------------------------------------------------------------

\* The objects scene$ is composed of.  A feature group is a new object for
\* every batch and is named by the batch it was built from.
Child(kind, of) == [kind |-> kind, of |-> of]
Ambient == Child("ambient", <<>>)
Sun == Child("sun", <<>>)
Earth == Child("earth", <<>>)
GroupChild(g) == Child("group", g.features)

\* Latest value of each child source of scene$, in the order of the list
\* given to objectWithChildren; <<>> for a source that has not emitted.
SceneLatest(sunT, e, g) ==
  << <<Ambient>>,
     IF sunT # <<>> THEN <<Sun>> ELSE <<>>,
     IF e > 0 THEN <<Earth>> ELSE <<>>,
     IF g # <<>> THEN <<GroupChild(g[1])>> ELSE <<>> >>

\* Mutant: combineLatest does not wait for its third source.
AllHaveValueButThird(latest) == \A i \in 1..Len(latest) : i = 3 \/ latest[i] # <<>>

\* combineLatest emits once every source has a value.
AllHaveValue(latest) == \A i \in 1..Len(latest) : latest[i] # <<>>

\* The values combineLatest hands on, in source order; a source without a
\* value contributes none.
RECURSIVE Values(_)
Values(latest) ==
  IF latest = <<>> THEN <<>> ELSE Head(latest) \o Values(Tail(latest))

\* Object3D.remove(...xs) and Object3D.add(...xs); add moves an object that
\* is a child already to the end.
RemoveChildren(children, xs) ==
  SelectSeq(children, LAMBDA c : \A i \in 1..Len(xs) : xs[i] # c)

RECURSIVE AddChildren(_, _)
AddChildren(children, xs) ==
  IF xs = <<>> THEN children
  ELSE AddChildren(SelectSeq(children, LAMBDA c : c # Head(xs)) \o <<Head(xs)>>,
                   Tail(xs))

\* Mutant: the children of the emission before are not removed.
SceneScanNoRemove(children, c) == AddChildren(children, c)

\* The accumulator of the scan of objectWithChildren.
SceneScan(children, c) == AddChildren(RemoveChildren(children, children), c)

\* Mutant: the composer emits as soon as the sun has a position.
ComposerEmitsEarly(children, latest) == latest[2] # <<>>

\* Mutant: the composer drops a combination whose objects are the ones of
\* the emission before.
ComposerEmitsDistinct(children, latest) ==
  AllHaveValue(latest) /\ Values(latest) # children

\* combineLatest(children) emits on every value a source delivers once all
\* sources have a value.
ComposerEmits(children, latest) == AllHaveValue(latest)

\* A child source of scene$ delivered a value: the emission of scene$, if
\* any.  An emission records the scene object, its children, and the render
\* times the sun and the opacities of the group show when it is made.
SceneOnNext(by, children, sunT, e, g, gT) ==
  LET latest == SceneLatest(sunT, e, g) IN
  IF ComposerEmits(children, latest)
  THEN <<[by |-> by, object |-> "scene",
          children |-> SceneScan(children, Values(latest)),
          sunTime |-> sunT, groupTime |-> gT]>>
  ELSE <<>>

ChildrenAfter(log, children) ==
  IF log = <<>> THEN children ELSE log[Len(log)].children

\* d.width / d.height
Aspect(d) ==
  LET g == GCD(d.width, d.height)
  IN [num |-> d.width \div g, den |-> d.height \div g]

\* renderer.render(scene, camera)
Draw(by, size, aspect, children, sunT, gT) ==
  [by |-> by, size |-> size, aspect |-> aspect, children |-> children,
   sunTime |-> sunT, groupTime |-> gT]

\* The combineLatest of renderer$, scene$ and camera$ on the emissions of
\* scene$; camera$ emits when it is subscribed.
DrawsOf(log, size, aspect) ==
  IF AllHaveValue(<<size, log>>)
  THEN [i \in 1..Len(log) |->
          Draw(log[i].by, size[1], aspect, log[i].children, log[i].sunTime,
               log[i].groupTime)]
  ELSE <<>>

\* Mutant: the inner subscriptions made before stay subscribed (flatMap).
SwitchInnerKeep(old) == old

\* flatMapLatest disposes the inner subscription made for the batch before.
SwitchInner(old) == <<>>

\* The inner scans on a new render time: each reads the batch its own
\* combineLatest saw.
InnerOnPlayState(in, ps) ==
  [i \in 1..Len(in) |->
     [in[i] EXCEPT !.g = UpdateOpacity(@, renderTimeSelector(in[i].seen, ps))]]

\* The inner scans that are subscribed when a batch arrives.
InnerOnBatch(in, features, ps) ==
  InnerOnPlayState([i \in 1..Len(in) |-> [in[i] EXCEPT !.seen = features]], ps)

\* The subscribers of playState$ that derive from renderTime$, in
\* subscription order: #date, sun$, the scan of featureGroup$.  Each has its
\* own combineLatest; the one of #date has seen every batch of the replay
\* buffer, those below scene$ the batch the group was built from.  sun$ and
\* the group each deliver to the composer of scene$.
RenderOnPlayState(ps) ==
  /\ dateText' = IF dateAlive /\ replay # <<>>
                 THEN <<renderTimeSelector(replay[1], ps)>>
                 ELSE dateText
  /\ IF sceneAlive /\ inner # <<>>
     THEN LET t == renderTimeSelector(group[1].features, ps)
              inner2 == InnerOnPlayState(inner, ps)
              last == inner2[Len(inner2)]
              gT == renderTimeSelector(last.seen, ps)
              em1 == SceneOnNext("sun", sceneChildren, <<t>>, earth, group, groupTime)
              em2 == SceneOnNext("group", ChildrenAfter(em1, sceneChildren), <<t>>,
                                 earth, <<last.g>>, <<gT>>)
          IN /\ sunTime' = <<t>>
             /\ inner' = inner2
             /\ group' = <<last.g>>
             /\ groupTime' = <<gT>>
             /\ sceneLog' = em1 \o em2
             /\ sceneChildren' = ChildrenAfter(em1 \o em2, sceneChildren)
             /\ draws' = DrawsOf(em1 \o em2, rendererSize, cameraAspect)
     ELSE /\ UNCHANGED <<sunTime, group, groupTime, inner, sceneChildren>>
          /\ sceneLog' = <<>>
          /\ draws' = <<>>
  /\ UNCHANGED <<replay, dateAlive, sceneAlive, uncaught, tex, earth, rendererSize,
                 cameraAspect>>

\* ------------------------------------------------------------------------
\* Handlers
\* ------------------------------------------------------------------------

\* playState$.onNext(Object.assign(playState$.getValue(), newState)) and
\* the synchronous run of every subscriber of playState$.
updatePlayState(ps, rid, pend, t) ==
  /\ playState' = ps
  /\ FrameScheduler(ps, rid, pend, t)
  /\ buttonValue' = IF ps.playing THEN "Pause" ELSE "Play"
  /\ sliderValue' = [num |-> ps.currentTime, den |-> ps.totalTime]
  /\ RenderOnPlayState(ps)

Command(cmd) ==
  lastCmd' = IF cmd = "play" /\ lastCmd = "pause" THEN "resume" ELSE cmd

\* Mutant: the new time is not capped at totalTime.
TickCurrentTimeNoCap(state, t, last) == state.currentTime + t - last

\* Mutant: the elapsed time is taken with the wrong sign.
TickCurrentTimeBackwards(state, t, last) ==
  Min(state.currentTime + last - t, state.totalTime)

TickCurrentTime(state, t, last) ==
  Min(state.currentTime + t - last, state.totalTime)

\* Mutant: > for >=.
TickPlayingStrict(currentTime, state) ==
  IF currentTime > state.totalTime THEN FALSE ELSE TRUE

TickPlaying(currentTime, state) ==
  IF currentTime >= state.totalTime THEN FALSE ELSE TRUE

\* The browser runs frame callback c at wall-clock time t.
TickAt(c, t) ==
  LET state == playState
      currentTime == TickCurrentTime(state, t, lastFrameTime)
  IN updatePlayState(
       [state EXCEPT !.playing = TickPlaying(currentTime, state),
                     !.currentTime = currentTime],
       null, pending \ {c}, t)

tick ==
  /\ \E c \in pending : TickAt(c, now)
  /\ Command("tick")
  /\ now' = now

\* A frame: the callback runs d ms of wall-clock time after the handler
\* before it.
Frame(d) ==
  /\ \E c \in pending : TickAt(c, now + d)
  /\ Command("tick")
  /\ now' = now + d

\* Mutant: play always rewinds.
PlayCurrentTimeRewind(state) == 0

PlayCurrentTime(state) ==
  IF state.currentTime = state.totalTime THEN 0 ELSE state.currentTime

play ==
  /\ LET state == playState IN
     updatePlayState(
       [state EXCEPT !.playing = TRUE, !.currentTime = PlayCurrentTime(state)],
       requestID, pending, now)
  /\ Command("play")
  /\ now' = now

\* Mutant: pause also rewinds.
pauseRewinds ==
  /\ updatePlayState([playState EXCEPT !.playing = FALSE, !.currentTime = 0],
                     requestID, pending, now)
  /\ Command("pause")
  /\ now' = now

\* Also the mousedown handler of the slider.
pause ==
  /\ updatePlayState([playState EXCEPT !.playing = FALSE], requestID, pending, now)
  /\ Command("pause")
  /\ now' = now

ButtonClick ==
  \/ /\ playState.playing
     /\ pause
  \/ /\ ~playState.playing
     /\ play

\* e.target.value * playTime for the slider value k / SliderScale.
SeekCurrentTime(k) == (k * playTime) \div SliderScale

\* The input handler of the slider.
SliderInput(k) ==
  /\ updatePlayState(
       [playState EXCEPT !.playing = FALSE, !.currentTime = SeekCurrentTime(k)],
       requestID, pending, now)
  /\ Command("seek")
  /\ now' = now

\* Wall-clock time passes between two handlers.
AdvanceClock(d) ==
  /\ now + d <= MaxNow
  /\ now' = now + d
  /\ UNCHANGED <<clockVars, renderVars, sceneVars>>

\* features$.onNext(data.features).  The observers of features$ run in
\* subscription order: the combineLatest of #date, the one of sun$, the
\* flatMapLatest of featureGroup$.  A selector that throws ends its stream
\* with onError; no subscriber passes an error handler, so the error is
\* rethrown out of onNext and the observers after it are not reached.
eqfeed_callback(features) ==
  /\ replay' = <<features>>
  /\ IF SelectorThrows(features)
     THEN /\ IF dateAlive
             THEN /\ dateAlive' = FALSE
                  /\ uncaught' = uncaught + 1
                  /\ UNCHANGED <<sceneAlive, inner>>
             ELSE IF sceneAlive
             THEN /\ sceneAlive' = FALSE
                  /\ uncaught' = uncaught + 1
                  /\ inner' = <<>>
                  /\ UNCHANGED dateAlive
             ELSE UNCHANGED <<dateAlive, sceneAlive, uncaught, inner>>
          /\ UNCHANGED <<dateText, sunTime, group, groupTime, sceneChildren>>
          /\ sceneLog' = <<>>
          /\ draws' = <<>>
     ELSE LET t == renderTimeSelector(features, playState) IN
          /\ dateText' = IF dateAlive THEN <<t>> ELSE dateText
          /\ IF sceneAlive
             THEN LET new == [g |-> UpdateOpacity(NewGroup(features), t),
                              seen |-> features]
                      em1 == SceneOnNext("sun", sceneChildren, <<t>>, earth, group,
                                         groupTime)
                      em2 == SceneOnNext("group", ChildrenAfter(em1, sceneChildren),
                                         <<t>>, earth, <<new.g>>, <<t>>)
                  IN /\ sunTime' = <<t>>
                     /\ inner' = InnerOnBatch(SwitchInner(inner), features, playState)
                                   \o <<new>>
                     /\ group' = <<new.g>>
                     /\ groupTime' = <<t>>
                     /\ sceneLog' = em1 \o em2
                     /\ sceneChildren' = ChildrenAfter(em1 \o em2, sceneChildren)
                     /\ draws' = DrawsOf(em1 \o em2, rendererSize, cameraAspect)
             ELSE /\ UNCHANGED <<sunTime, group, groupTime, inner, sceneChildren>>
                  /\ sceneLog' = <<>>
                  /\ draws' = <<>>
          /\ UNCHANGED <<dateAlive, sceneAlive, uncaught>>
  /\ UNCHANGED <<clockVars, now, tex, earth, rendererSize, cameraAspect>>

\* The three texture streams of earth$, in the order of the url list.
Textures == 1..3

\* What the callbacks given to TextureLoader.load send to the observer.
OnLoad == <<"next", "completed">>
OnError == <<"error">>

TextureValue(sent) == IF sent = OnLoad THEN <<"texture">> ELSE <<>>
EarthLatest(tx) == [i \in Textures |-> TextureValue(tx[i])]

\* The load callback of texture i.  The combineLatest of earth$ emits when
\* the last of the three textures arrives, and the mesh is delivered to the
\* composer of scene$.
TextureLoaded(i) ==
  /\ tex[i] = <<>>
  /\ tex' = [tex EXCEPT ![i] = OnLoad]
  /\ IF sceneAlive /\ AllHaveValue(EarthLatest(tex'))
     THEN LET em == SceneOnNext("earth", sceneChildren, sunTime, earth + 1, group,
                                groupTime)
          IN /\ earth' = earth + 1
             /\ sceneLog' = em
             /\ sceneChildren' = ChildrenAfter(em, sceneChildren)
             /\ draws' = DrawsOf(em, rendererSize, cameraAspect)
     ELSE /\ UNCHANGED <<earth, sceneChildren>>
          /\ sceneLog' = <<>>
          /\ draws' = <<>>
  /\ UNCHANGED <<clockVars, now, renderVars, rendererSize, cameraAspect>>

\* The error callback of texture i.  The error passes every combineLatest
\* down to the render subscription, which has no error handler: it is
\* rethrown out of the callback and the subscription is disposed.
TextureFailed(i) ==
  /\ tex[i] = <<>>
  /\ tex' = [tex EXCEPT ![i] = OnError]
  /\ IF sceneAlive
     THEN /\ sceneAlive' = FALSE
          /\ uncaught' = uncaught + 1
          /\ inner' = <<>>
     ELSE UNCHANGED <<sceneAlive, uncaught, inner>>
  /\ sceneLog' = <<>>
  /\ draws' = <<>>
  /\ UNCHANGED <<clockVars, now, replay, dateText, dateAlive, sunTime, group,
                 groupTime, earth, rendererSize, cameraAspect, sceneChildren>>

\* Sizes of #canvas-wrapper.
Dimensions == {[width |-> 800, height |-> 600], [width |-> 400, height |-> 400]}

\* dimensions$.onNext(d) on window load and resize.  The observers of
\* dimensions$ run in subscription order: the scan of renderer$, then the
\* subscriber made inside camera$, which is never disposed.  Each emission
\* reaches the combineLatest of the render subscription.
updateDimensions(d) ==
  LET byRenderer == IF sceneAlive /\ AllHaveValue(<<sceneChildren>>)
                    THEN <<Draw("renderer", d, cameraAspect, sceneChildren, sunTime,
                                groupTime)>>
                    ELSE <<>>
      byCamera == IF sceneAlive /\ AllHaveValue(<<sceneChildren>>)
                  THEN <<Draw("camera", d, Aspect(d), sceneChildren, sunTime,
                              groupTime)>>
                  ELSE <<>>
  IN /\ rendererSize' = IF sceneAlive THEN <<d>> ELSE rendererSize
     /\ cameraAspect' = Aspect(d)
     /\ draws' = byRenderer \o byCamera
     /\ sceneLog' = <<>>
     /\ UNCHANGED <<clockVars, now, renderVars, tex, earth, sceneChildren>>

\* The change event of the camera controls.
CameraChange ==
  /\ draws' = IF sceneAlive /\ AllHaveValue(<<rendererSize, sceneChildren>>)
              THEN <<Draw("camera", rendererSize[1], cameraAspect, sceneChildren,
                          sunTime, groupTime)>>
              ELSE <<>>
  /\ sceneLog' = <<>>
  /\ UNCHANGED <<clockVars, now, renderVars, tex, earth, rendererSize, cameraAspect,
                 sceneChildren>>

\* ------------------------------------------------------------------------
\* Specifications
\* ------------------------------------------------------------------------

\* The state once the script has run: every subscription is made, no batch
\* has arrived, playState$ holds startState.
Init ==
  /\ playState = startState
  /\ lastFrameTime = null
  /\ requestID = null
  /\ now = 0
  /\ pending = {}
  /\ nextID = 1
  /\ buttonValue = "Play"
  /\ sliderValue = [num |-> startState.currentTime, den |-> startState.totalTime]
  /\ replay = <<>>
  /\ dateText = <<>>
  /\ dateAlive = TRUE
  /\ sunTime = <<>>
  /\ group = <<>>
  /\ groupTime = <<>>
  /\ sceneAlive = TRUE
  /\ uncaught = 0
  /\ lastCmd = "none"
  /\ inner = <<>>
  /\ tex = [i \in Textures |-> <<>>]
  /\ earth = 0
  /\ rendererSize = <<>>
  /\ cameraAspect = Aspect([width |-> 1, height |-> 1])
  /\ sceneChildren = <<>>
  /\ sceneLog = <<>>
  /\ draws = <<>>

\* Values the range input produces: 0 .. 1.
SliderValues == 0..SliderScale
\* Values the handler can be called with.
AnyValues == (0 - OutOfRange)..(SliderScale + OutOfRange)

Next ==
  \/ play
  \/ pause
  \/ ButtonClick
  \/ \E k \in SliderValues : SliderInput(k)
  \/ tick
  \/ \E d \in ClockSteps : AdvanceClock(d)
  \/ \E b \in Batches : eqfeed_callback(b)

Spec == Init /\ [][Next]_vars

NextAnySeek ==
  \/ play
  \/ pause
  \/ ButtonClick
  \/ \E k \in AnyValues : SliderInput(k)
  \/ tick
  \/ \E d \in ClockSteps : AdvanceClock(d)
  \/ \E b \in Batches : eqfeed_callback(b)

SpecAnySeek == Init /\ [][NextAnySeek]_vars

\* Uninterrupted play.  The initial states are the states of Spec right after
\* a batch b arrived (or none), the slider was set to k / SliderScale and
\* play() was called at wall-clock time t0; from there only frames run,
\* every requested frame fires and wall-clock time advances between frames.
InitPlay ==
  \E k \in SliderValues, b \in {<<>>} \cup {<<x>> : x \in Batches \ {BatchEmpty}},
     t0 \in {0} \cup ClockSteps :
    LET sought == [startState EXCEPT !.currentTime = SeekCurrentTime(k)]
        ps == [sought EXCEPT !.playing = TRUE, !.currentTime = PlayCurrentTime(sought)]
        shown == IF b = <<>> THEN <<>> ELSE <<renderTimeSelector(b[1], ps)>>
    IN /\ playState = ps
       /\ lastFrameTime = t0
       /\ requestID = 1
       /\ now = t0
       /\ pending = {[id |-> 1, at |-> t0]}
       /\ nextID = 2
       /\ buttonValue = "Pause"
       /\ sliderValue = [num |-> ps.currentTime, den |-> ps.totalTime]
       /\ replay = b
       /\ dateText = shown
       /\ dateAlive = TRUE
       /\ sunTime = shown
       /\ group = IF b = <<>> THEN <<>> ELSE <<UpdateOpacity(NewGroup(b[1]), shown[1])>>
       /\ groupTime = shown
       /\ sceneAlive = TRUE
       /\ uncaught = 0
       /\ lastCmd = "play"
       /\ inner = IF b = <<>> THEN <<>>
                  ELSE <<[g |-> UpdateOpacity(NewGroup(b[1]), shown[1]), seen |-> b[1]]>>
       /\ tex = [i \in Textures |-> <<>>]
       /\ earth = 0
       /\ rendererSize = <<>>
       /\ cameraAspect = Aspect([width |-> 1, height |-> 1])
       /\ sceneChildren = <<>>
       /\ sceneLog = <<>>
       /\ draws = <<>>

NextPlay == \E d \in ClockSteps : Frame(d)

SpecPlay == InitPlay /\ [][NextPlay]_vars /\ WF_vars(NextPlay)

\* The whole page: playback, batches, texture loads, resizes and camera
\* changes.  A frame runs d ms after the handler before it.
SceneSliderValues == {SliderScale \div 2}
SceneClockSteps == {4000}
\* The batches the feed delivers while the scene is composed.
SceneBatches == Batches \ {BatchEmpty}

NextScene ==
  \/ play
  \/ pause
  \/ \E k \in SceneSliderValues : SliderInput(k)
  \/ \E d \in SceneClockSteps : now + d <= MaxNow /\ Frame(d)
  \/ \E b \in SceneBatches : eqfeed_callback(b)
  \/ \E i \in Textures : TextureLoaded(i)
  \/ \E i \in Textures : TextureFailed(i)
  \/ \E d \in Dimensions : updateDimensions(d)
  \/ CameraChange

SpecScene == Init /\ [][NextScene]_vars

\* ------------------------------------------------------------------------
\* Properties
\* ------------------------------------------------------------------------
currentTime == playState.currentTime
totalTime == playState.totalTime
playing == playState.playing

Times(features) == {features[i].time : i \in 1..Len(features)}
Oldest(features) == CHOOSE t \in Times(features) : \A u \in Times(features) : t <= u
Newest(features) == CHOOSE t \in Times(features) : \A u \in Times(features) : t >= u

\* C1: at most one frame callback is pending, and it is the one requestID
\* names: every callback requested before it has fired or was cancelled.
AtMostOnePending ==
  /\ Cardinality(pending) <= 1
  /\ \A c \in pending : c.id = requestID

\* play() was called twice with no frame between: request 1 was cancelled
\* unfired and only request 2 is pending.
AtMostOnePendingWitness ==
  /\ lastCmd = "play"
  /\ now = 0
  /\ requestID = 2
  /\ pending = {[id |-> 2, at |-> 0]}

\* C2: with slider values in [0, 1], 0 <= currentTime <= totalTime.
TimeInRange == 0 <= currentTime /\ currentTime <= totalTime

\* A tick 4000 ms after its request ended playback at totalTime.
TimeInRangeWitness ==
  /\ lastCmd = "tick"
  /\ currentTime = totalTime
  /\ now - lastFrameTime = 4000

\* C3: a tick sets currentTime to min(currentTime + elapsed, totalTime) for
\* the time elapsed since the callback was requested, and playing to
\* newTime < totalTime; at totalTime no callback is pending afterwards,
\* below it exactly one new callback is.
TickEffect ==
  [][tick =>
       \A c \in pending :
         LET newTime == Min(currentTime + (now - c.at), totalTime) IN
         /\ currentTime' = newTime
         /\ playing' = (newTime < totalTime)
         /\ newTime = totalTime => pending' = {}
         /\ newTime < totalTime =>
              /\ Cardinality(pending') = 1
              /\ pending' \cap pending = {}
              /\ \A n \in pending' : n.id = requestID']_vars

\* A tick reached totalTime and stopped playback.
TickEffectWitness ==
  /\ lastCmd = "tick"
  /\ currentTime = totalTime
  /\ ~playing
  /\ pending = {}
  /\ requestID = null

\* C4: pause() leaves currentTime unchanged; a play() directly after it
\* sets playing, keeps currentTime below totalTime and rewinds to 0 at
\* totalTime.
PauseThenPlay ==
  [][/\ pause => currentTime' = currentTime
     /\ (lastCmd = "pause" /\ play) =>
          /\ playing'
          /\ currentTime < totalTime => currentTime' = currentTime
          /\ currentTime = totalTime => currentTime' = 0]_vars

\* play() directly after pause() resumed in mid-play, after wall-clock time
\* had passed.
PauseThenPlayWitness ==
  /\ lastCmd = "resume"
  /\ playing
  /\ 0 < currentTime
  /\ currentTime < totalTime
  /\ now > 0

\* C5: in uninterrupted play currentTime never decreases, playing turns
\* false only at totalTime, nothing runs once playing is false, and
\* playback ends at totalTime with no callback pending.
UninterruptedPlay ==
  /\ [][/\ playing
        /\ currentTime' >= currentTime
        /\ ~playing' => currentTime' = totalTime]_vars
  /\ <>[](~playing /\ currentTime = totalTime /\ pending = {})

\* Playback ended after four frames.
UninterruptedPlayWitness ==
  /\ lastCmd = "tick"
  /\ ~playing
  /\ currentTime = totalTime
  /\ pending = {}
  /\ nextID = 5

\* C6: a slider value outside [0, 1] is clamped: after the input handler
\* playing is false and currentTime = clamp(value * totalTime, 0, totalTime).
SeekClamped ==
  [][\A k \in AnyValues :
       SliderInput(k) =>
         /\ ~playing'
         /\ currentTime' = Max(0, Min((k * totalTime) \div SliderScale, totalTime))]_vars

\* The render time the mapping oldest + currentTime * span / totalTime gives.
ExpectedRenderTime(features, ps) ==
  RatAddInt(Oldest(features),
            MulDiv(ps.currentTime, Newest(features) - Oldest(features), ps.totalTime))

\* C7: while the stream of #date runs, the render time shown for the
\* loaded batch is oldest + currentTime * (newest - oldest) / totalTime:
\* oldest at 0, newest at totalTime, the event's time for a single event.
\* The render time applied below scene$ obeys the same mapping.
RenderTimeMapping ==
  /\ (dateAlive /\ replay # <<>>) =>
       LET features == replay[1] IN
       /\ dateText = <<ExpectedRenderTime(features, playState)>>
       /\ currentTime = 0 => dateText = <<RatInt(Oldest(features))>>
       /\ currentTime = totalTime => dateText = <<RatInt(Newest(features))>>
       /\ Len(features) = 1 => dateText = <<RatInt(features[1].time)>>
  /\ (sceneAlive /\ group # <<>>) =>
       /\ groupTime = <<ExpectedRenderTime(group[1].features, playState)>>
       /\ sunTime = groupTime

\* A render time with a fractional part is shown in mid-play.
RenderTimeMappingWitness ==
  /\ dateAlive
  /\ replay = <<BatchWeek>>
  /\ 0 < currentTime
  /\ currentTime < totalTime
  /\ dateText # <<>>
  /\ dateText[1].num # 0

\* C8: an empty batch is not given to the render-time selector and raises
\* no error: the arrival leaves every stream and output as it was.
EmptyBatchIgnored ==
  [][eqfeed_callback(BatchEmpty) =>
       UNCHANGED <<dateText, dateAlive, sunTime, group, groupTime, sceneAlive,
                   uncaught>>]_vars

\* The opacity of an event at time e for render time t and newest time.
ExpectedOpacity(t, e, newest) ==
  IF ~RatLess(t, RatInt(newest)) THEN OpacityOne
  ELSE IF RatLess(t, RatInt(e)) THEN OpacityZero
  ELSE RatMax(OpacityFloor, IntSubRat(FadeTime, RatSubInt(t, e)))

\* C9: every child of the feature group has the opacity the visibility
\* model gives for the render time last applied: 1 from newest on, 0 before
\* the event, else max(0.2, 1 - age / 6 h).  A future event has opacity 0
\* and a past one at least 0.2.
OpacityLaw ==
  group # <<>> =>
    LET g == group[1]
        t == groupTime[1]
    IN \A i \in 1..Len(g.features) :
         LET e == g.features[i].time IN
         /\ g.opacity[i] = ExpectedOpacity(t, e, Newest(g.features))
         /\ RatLess(t, RatInt(e)) => g.opacity[i] = OpacityZero
         /\ ~RatLess(t, RatInt(e)) => ~RatLess(g.opacity[i], OpacityFloor)

\* One group shows a future event, a fading event and one at the floor.
OpacityLawWitness ==
  /\ group # <<>>
  /\ \E i, j, k \in 1..Len(group[1].opacity) :
       /\ group[1].opacity[i] = OpacityZero
       /\ group[1].opacity[j] = OpacityFloor
       /\ RatLess(OpacityFloor, group[1].opacity[k])
       /\ RatLess(group[1].opacity[k], OpacityOne)

\* C10: with a batch loaded and currentTime = totalTime, the render time
\* last applied is the batch's newest time and every event of its feature
\* group has opacity 1.
AtEndAllVisible ==
  (replay # <<>> /\ replay[1] # <<>> /\ currentTime = totalTime) =>
    /\ group # <<>>
    /\ group[1].features = replay[1]
    /\ groupTime = <<RatInt(Newest(replay[1]))>>
    /\ \A i \in 1..Len(group[1].opacity) : group[1].opacity[i] = OpacityOne

\* The same, in the states no error has been thrown in.
AtEndAllVisibleUnlessThrown == uncaught = 0 => AtEndAllVisible

\* C15: after every handler a frame callback is pending exactly when
\* playing is true, and then it is the only one; a tick, which needs a
\* pending callback, therefore never runs while playing is false.
PendingIffPlaying ==
  /\ (pending # {}) <=> playing
  /\ playing => Cardinality(pending) = 1
  /\ ~playing => ~ENABLED tick

\* A slider input during play cancelled the only requested frame.
PendingIffPlayingWitness ==
  /\ lastCmd = "seek"
  /\ nextID = 2
  /\ ~playing
  /\ pending = {}

\* ------------------------------------------------------------------------
\* Properties of the scene composition
\* ------------------------------------------------------------------------

\* C11: scene$ emits nothing, and nothing is drawn, while one of its child
\* sources (sun$, earth$, featureGroup$) has not produced a value; every
\* scene emitted or drawn has a child for each of the four sources.
SceneWaitsForAll ==
  /\ (sunTime = <<>> \/ earth = 0 \/ group = <<>>) =>
       /\ sceneChildren = <<>>
       /\ sceneLog = <<>>
       /\ draws = <<>>
  /\ sceneChildren # <<>> => Len(sceneChildren) = 4
  /\ \A i \in 1..Len(sceneLog) : Len(sceneLog[i].children) = 4
  /\ \A i \in 1..Len(draws) : Len(draws[i].children) = 4

\* The third texture arrived last: its handler made the first emission of
\* scene$ and the first draw.
SceneWaitsForAllWitness ==
  /\ Len(sceneLog) = 1
  /\ sceneLog[1].by = "earth"
  /\ Len(draws) = 1

\* The latest value of each source of scene$, in source-list order, once
\* every source has one.
ExpectedChildren ==
  <<Ambient, Sun, Earth, Child("group", group[1].features)>>

\* C12: every emission of scene$ is the scene object that was passed in, and
\* its children are exactly the latest value of each source in source-list
\* order: ambient light, sun, earth, and the group of the latest batch,
\* with nothing left from an earlier emission.
ChildrenAreLatest ==
  /\ \A i \in 1..Len(sceneLog) :
       /\ sceneLog[i].object = "scene"
       /\ Len(sceneLog[i].children) = 4
       /\ sceneLog[i].children[1] = Ambient
       /\ sceneLog[i].children[2] = Sun
       /\ sceneLog[i].children[3] = Earth
       /\ sceneLog[i].children[4].kind = "group"
  /\ sceneLog # <<>> => sceneLog[Len(sceneLog)].children = ExpectedChildren
  /\ sceneAlive /\ sceneChildren # <<>> => sceneChildren = ExpectedChildren

\* A batch replaced the batch of a scene already emitted: the handler made
\* two emissions and the last holds the group of the new batch only.
ChildrenAreLatestWitness ==
  /\ Len(sceneLog) = 2
  /\ sceneLog[1].children[4] # sceneLog[2].children[4]
  /\ sceneLog[2].children[4].of = replay[1]

\* After a failed texture load scene$ has not emitted and nothing was drawn.
FailureStalls ==
  (\E i \in Textures : tex[i] = OnError) =>
    /\ sceneChildren = <<>>
    /\ sceneLog = <<>>
    /\ draws = <<>>
    /\ earth = 0

\* A texture callback runs once: no notification follows the first.
NoRetry ==
  [][\A i \in Textures : tex[i] # <<>> => tex'[i] = tex[i]]_vars

\* C13: when a texture load fails, scene$ never emits and nothing is ever
\* drawn, the load is not retried, and no exception leaves the callback of
\* the load.
TextureFailureContained ==
  /\ []FailureStalls
  /\ NoRetry
  /\ [][\A i \in Textures : TextureFailed(i) => uncaught' = uncaught]_vars

\* The exception: a texture failed while the render subscription was live.
TextureFailureThrows ==
  /\ \E i \in Textures : tex[i] = OnError
  /\ ~sceneAlive
  /\ uncaught = 1
  /\ replay = <<>>

\* Renderer, scene and camera have all been delivered to the render
\* subscription.
AllAvailable == sceneAlive /\ rendererSize # <<>> /\ sceneChildren # <<>>

\* C14: once renderer, scene and camera are available, one resize causes
\* exactly one draw, made with the renderer size and the camera aspect of
\* the new dimensions.
ResizeDrawsOnce ==
  [][\A d \in Dimensions :
       updateDimensions(d) /\ AllAvailable =>
         /\ Len(draws') = 1
         /\ \A i \in 1..Len(draws') :
              draws'[i].size = d /\ draws'[i].aspect = Aspect(d)]_vars

\* What the code does: a resize to other dimensions draws twice, first with
\* the new renderer size and the old camera aspect.
ResizeDrawsTwice ==
  /\ Len(draws) = 2
  /\ draws[1].by = "renderer"
  /\ draws[2].by = "camera"
  /\ draws[1].size = draws[2].size
  /\ draws[1].aspect # Aspect(draws[1].size)
  /\ draws[2].aspect = Aspect(draws[2].size)

\* A handler that updates the playback state.
PlaybackUpdate ==
  \/ play
  \/ pause
  \/ \E k \in SceneSliderValues : SliderInput(k)
  \/ \E d \in SceneClockSteps : Frame(d)

\* C16: in every scene emitted and every draw made by a playback update,
\* the sun and the opacities of the feature group show the same render
\* time, the one of the updated playback state.
SunAndGroupAgree ==
  [][PlaybackUpdate =>
       /\ \A i \in 1..Len(sceneLog') :
            /\ sceneLog'[i].sunTime = sceneLog'[i].groupTime
            /\ sceneLog'[i].sunTime = sunTime'
       /\ \A i \in 1..Len(draws') :
            /\ draws'[i].sunTime = draws'[i].groupTime
            /\ draws'[i].sunTime = sunTime']_vars

\* What the code does: the first of the two draws of a playback update
\* shows the sun at the new render time and the group at the one before.
SunAheadOfGroup ==
  /\ Len(draws) = 2
  /\ draws[1].by = "sun"
  /\ draws[1].sunTime = sunTime
  /\ draws[1].groupTime # sunTime
  /\ draws[1].children = draws[2].children
  /\ draws[2].groupTime = sunTime

\* Every source of scene$ has a value and the render subscription is live.
Complete == sceneAlive /\ sunTime # <<>> /\ earth > 0 /\ group # <<>>

\* The sources whose deliveries made the emissions of the last handler.
EmittedBy(log) == [i \in 1..Len(log) |-> log[i].by]

\* C17 as stated: scene$ emits once per distinct combination of latest
\* values; a handler in which the sun and the feature group are delivered
\* again unchanged makes no emission.
EmitsOncePerCombination ==
  [][PlaybackUpdate /\ sunTime' = sunTime /\ group' = group /\
     groupTime' = groupTime => sceneLog' = <<>>]_vars

\* C17 as the code has it: once every source has a value scene$ emits once
\* for each value a source delivers, changed or not -- twice in a playback
\* update or a batch arrival (sun, then group), once when the earth mesh
\* arrives, never on a resize or a camera change, and never before all
\* sources have a value.
EmitsOncePerDelivery ==
  [][/\ PlaybackUpdate /\ Complete => EmittedBy(sceneLog') = <<"sun", "group">>
     /\ (\E b \in SceneBatches : eqfeed_callback(b)) /\ Complete =>
          EmittedBy(sceneLog') = <<"sun", "group">>
     /\ (\E b \in SceneBatches : eqfeed_callback(b)) /\ sceneAlive /\ earth > 0 /\
        group = <<>> => EmittedBy(sceneLog') = <<"group">>
     /\ (\E i \in Textures : TextureLoaded(i)) /\ earth' > earth /\ group # <<>> =>
          EmittedBy(sceneLog') = <<"earth">>
     /\ (\E d \in Dimensions : updateDimensions(d)) \/ CameraChange =>
          sceneLog' = <<>>
     /\ ~Complete' => sceneLog' = <<>>]_vars

\* pause() with nothing to change: the sun and the group were delivered
\* again with the render time they had, and scene$ emitted twice.
EmitsOncePerDeliveryWitness ==
  /\ lastCmd = "pause"
  /\ Len(sceneLog) = 2
  /\ sceneLog[1].children = sceneLog[2].children
  /\ sceneLog[1].sunTime = sceneLog[1].groupTime
  /\ sceneLog[2].sunTime = sceneLog[1].sunTime
  /\ sceneLog[2].groupTime = sceneLog[1].groupTime
  /\ sliderValue = [num |-> playTime, den |-> playTime]

\* C18: a texture stream sends one value and then completion, or one error
\* and no completion, and nothing after that; earth$ emits one mesh, when
\* the last of the three textures has loaded, and none while a texture is
\* loading or has failed.
TextureProtocol ==
  /\ [](\A i \in Textures :
          tex[i] \in {<<>>, <<"next", "completed">>, <<"error">>})
  /\ NoRetry
  /\ [](earth \in {0, 1})
  /\ [](earth = 1 => \A i \in Textures : tex[i] = <<"next", "completed">>)
  /\ []((sceneAlive /\ \A i \in Textures : tex[i] = <<"next", "completed">>)
          => earth = 1)
  /\ [][earth' # earth =>
          \E i \in Textures : tex[i] = <<>> /\ tex'[i] = <<"next", "completed">>]_vars

\* The three textures have loaded before any batch arrived: earth$ has
\* emitted its mesh, scene$ nothing.
TextureProtocolWitness ==
  /\ earth = 1
  /\ \A i \in Textures : tex[i] = <<"next", "completed">>
  /\ replay = <<>>
  /\ sceneChildren = <<>>

\* A handler that is not one of play, pause, seek and tick.
OtherHandler ==
  \/ \E b \in SceneBatches : eqfeed_callback(b)
  \/ \E i \in Textures : TextureLoaded(i) \/ TextureFailed(i)
  \/ \E d \in Dimensions : updateDimensions(d)
  \/ CameraChange

\* C19: the playback state changes only in play, pause, seek and tick;
\* pause leaves currentTime as it is, none of them writes totalTime, which
\* keeps its initial value; the arrival of a batch, of dimensions, of a
\* texture or of a camera change leaves the playback state as it is.
PlayStateFrame ==
  /\ [](playState.totalTime = startState.totalTime)
  /\ [][/\ playState'.totalTime = playState.totalTime
        /\ pause => playState'.currentTime = playState.currentTime
        /\ OtherHandler => playState' = playState
        /\ playState' # playState => PlaybackUpdate]_vars

\* The window was resized during play, after one frame: the playback state
\* is the one the frame left.
PlayStateFrameWitness ==
  /\ playState = [playing |-> TRUE, currentTime |-> 4000, totalTime |-> playTime]
  /\ lastCmd = "tick"
  /\ Len(draws) = 2
  /\ draws[1].by = "renderer"

\* C20: at most one scan of featureGroup$ is subscribed, the one of the
\* group emitted last, and its combineLatest has seen the batch the group
\* was built from only; the opacities of the group are the ones computed
\* from the render time, the newest timestamp and the event times of that
\* batch; a batch that arrives replaces the group by one with a child per
\* event of the new batch, and the group of the batch before is updated no
\* more.
GroupFollowsItsBatch ==
  /\ [](Len(inner) <= 1)
  /\ [](\A i \in 1..Len(inner) : inner[i].seen = inner[i].g.features)
  /\ [](sceneAlive /\ group # <<>> =>
          /\ inner = <<[g |-> group[1], seen |-> group[1].features]>>
          /\ groupTime = <<renderTimeSelector(group[1].features, playState)>>)
  /\ [](group # <<>> =>
          /\ group[1].lastTime = group[1].features[1].time
          /\ Len(group[1].opacity) = Len(group[1].features)
          /\ \A i \in 1..Len(group[1].features) :
               group[1].opacity[i] =
                 ChildOpacity(groupTime[1], group[1].features[1].time,
                              group[1].features[i].time))
  /\ [][\A b \in SceneBatches :
          eqfeed_callback(b) /\ sceneAlive =>
            /\ group'[1].features = b
            /\ Len(group'[1].opacity) = Len(b)
            /\ inner' = <<[g |-> group'[1], seen |-> b]>>]_vars

\* During play the one-event batch replaced the three-event batch of a
\* scene already emitted: the group emitted last has one child.
GroupFollowsItsBatchWitness ==
  /\ playing
  /\ Len(sceneLog) = 2
  /\ sceneLog[1].children[4].of = BatchWeek
  /\ sceneLog[2].children[4].of = BatchOne
  /\ Len(group[1].opacity) = 1
  /\ Len(inner) = 1

====
